---- MODULE Spec2Model ----
(***************************************************************************)
(* Session / token lifecycle of the task-manager backend (Express +        *)
(* Mongoose) and the Redux auth slice of its client.                       *)
(*                                                                         *)
(* Every HTTP request is a process slot.  A handler is split exactly at    *)
(* the awaits on the persistence layer, so that the interleavings Node's   *)
(* event loop can produce between two requests are the interleavings of    *)
(* the actions below.  Time is counted in minutes.                         *)
(***************************************************************************)
EXTENDS Integers, Sequences, FiniteSets, TLC

\* ---------------------------------------------------------------- bounds
MaxEmails == 2          \* distinct well-formed e-mail addresses
MaxPasswords == 2       \* distinct first 72 bytes of well-formed passwords
MaxSuffix == 1          \* distinct continuations of a password after byte 72
MaxTokens == 3          \* refresh tokens generated in one run
NumProcs == 2           \* requests in flight at the same time
MaxTicks == 1           \* clock advances in one run
MaxRequests == 5        \* requests received in one run
MaxTaskRequests == 3    \* requests received in one run of the task routes
MaxTasks == 2           \* tasks created in one run
MaxTitles == 2          \* distinct well-formed task titles

\* ------------------------------------------------------ program constants
JWT_EXPIRY == 15                        \* "15m"
REFRESH_TOKEN_EXPIRY == 10080           \* "7d"
ACCESS_COOKIE_MAX_AGE == 15             \* 15 * 60 * 1000 ms
REFRESH_COOKIE_MAX_AGE == 10080         \* 7 * 24 * 60 * 60 * 1000 ms

Emails == 1..MaxEmails
NoEmail == 0            \* email absent from the body, or the empty string
BadEmail == -1          \* a string that is no e-mail address
\* a password of 8 to 128 characters: its first 72 bytes and what follows
\* them (0 for nothing)
Passwords == (1..MaxPasswords) \X (0..MaxSuffix)
NoPassword == <<>>
\* the passwords of at most 72 bytes
ShortPasswords == {w \in Passwords : w[2] = 0}
\* a non-empty string that is no well-formed password (too short, no digit)
WeakPassword == <<0, 0>>
Procs == 1..NumProcs

VARIABLES
    users,      \* the User collection: sequence of documents, _id = index
    tasks,      \* the Task collection: sequence of documents, _id = index
    jwtSecret,  \* process.env.JWT_SECRET ("" when unset)
    nodeEnv,    \* process.env.NODE_ENV
    now,        \* wall clock, minutes
    ticks,      \* number of clock advances so far
    procs,      \* the requests in flight, one record per slot
    resp,       \* the response on the wire, with the request it answers
    nreq,       \* number of requests received so far
    auth,       \* the browser's Redux auth state
    jar,        \* the browser's cookie jar
    slice,      \* the browser's Redux task state
    net,        \* the responses on their way to the browser
    ui,         \* the Dashboard's logout handler: where it stands
    toks,       \* history: refresh tokens generated, toks[n] describes RT(n)
    accs,       \* history: access tokens signed by the server
    pws,        \* history: per user, the password registered
    lo,         \* history: per user, 0 none / 1 logout written / 2 logout answered
                \*          (back to 0 when a login writes)
    last        \* history: per user, the call that wrote refreshToken last

vars == <<users, tasks, jwtSecret, nodeEnv, now, ticks, procs, resp, nreq, auth, jar,
          slice, net, ui, toks, accs, pws, lo, last>>
env == <<jwtSecret, nodeEnv>>
accounts == <<users, env, toks, accs, pws, lo, last>>
server == <<accounts, tasks>>
page == <<slice, net, ui>>
client == <<auth, jar, page>>
clock == <<now, ticks>>

\* ------------------------------------------------------------ token values
\* crypto.randomBytes(40).toString("hex"): the n-th value drawn is RT(n);
\* values drawn at different calls differ.
generateRefreshToken(n) == <<"hex", n>>
RT(n) == generateRefreshToken(n)
NoCookie == <<>>                 \* cookie absent (undefined, falsy)
GarbageToken == <<"hex", 0>>     \* a string the server never generated
NullHash == <<>>                 \* refreshToken: null

\* (a digest that does not depend on the token)
hashRefreshToken_constant(token) == <<"sha256", <<"hex", 0>>>>
hashRefreshToken(token) == <<"sha256", token>>

\* bcryptjs: the key schedule reads 72 bytes of the password, the rest is
\* ignored; the salt drawn by genSalt is part of the hash, compare reuses it
bcrypt(password, salt) ==
    <<"bcrypt", salt, IF password = NoPassword THEN -1 ELSE password[1]>>
hashPassword(password, salt) == bcrypt(password, salt)
\* (bcrypt.compare(hash, password), arguments swapped, matches nothing)
verifyPassword_swapped(password, hash) == FALSE
verifyPassword(password, hash) == hash = bcrypt(password, hash[2])

NoAccess == [userId |-> 0, iat |-> 0, sig |-> "none"]
MalformedAccess == [userId |-> 0, iat |-> 0, sig |-> "malformed"]
ForgedAccess(u) == [userId |-> u, iat |-> now, sig |-> "forged"]

\* jwt.sign({ userId }, jwtSecret, { expiresIn: JWT_EXPIRY })
generateToken_otherKey(userId) == [userId |-> userId, iat |-> now, sig |-> "other"]
generateToken(userId) == [userId |-> userId, iat |-> now, sig |-> jwtSecret]

\* generateToken: if (!jwtSecret) throw new Error(..)
generateTokenThrows_never == FALSE
generateTokenThrows == jwtSecret = ""

\* jwt.verify(token, secret) returns the payload or throws: the error
\* thrown, "" for none (format, signature, then exp: now >= exp is expired)
jwtVerifyError(token, secret) ==
    IF token = NoAccess \/ token = MalformedAccess THEN "JsonWebTokenError"
    ELSE IF token.sig # secret THEN "JsonWebTokenError"
    ELSE IF now >= token.iat + JWT_EXPIRY THEN "TokenExpiredError"
    ELSE ""
jwtVerify_ignoreExpiration(token, secret) ==
    token # NoAccess /\ token # MalformedAccess /\ token.sig = secret
jwtVerify(token, secret) == jwtVerifyError(token, secret) = ""

\* ------------------------------------------------------------- persistence
UserIds == 1..Len(users)

findByEmail(email) ==
    IF \E u \in UserIds : users[u].email = email
    THEN CHOOSE u \in UserIds : users[u].email = email
    ELSE 0

findByRefreshToken(hash) ==
    IF \E u \in UserIds : users[u].refreshToken = hash
    THEN CHOOSE u \in UserIds : users[u].refreshToken = hash
    ELSE 0

updateRefreshToken(userId, hash) ==
    IF userId \in UserIds
    THEN [users EXCEPT ![userId].refreshToken = hash]
    ELSE users

\* login: "Generate refresh token and store its hash in the database"
storeRefreshToken_skipped(userId, refreshToken) == users
storeRefreshToken(userId, refreshToken) ==
    updateRefreshToken(userId, hashRefreshToken(refreshToken))

\* refresh: "Rotate refresh token (issue new one, invalidate old)"
rotateRefreshToken_skipped(userId, newRefreshToken) == users
rotateRefreshToken(userId, newRefreshToken) ==
    updateRefreshToken(userId, hashRefreshToken(newRefreshToken))

\* AuthService.logout: "Invalidate the refresh token"
logout_skipped(userId) == users
logout(userId) == updateRefreshToken(userId, NullHash)

\* ------------------------------------------------------------- responses
\* URL paths and cookie paths, by segment: "/" is <<>>
RootPath == <<>>
RefreshPath == <<"auth", "refresh">>
Endpoints == {<<"auth", "register">>, <<"auth", "login">>, <<"auth", "refresh">>,
              <<"auth", "logout">>, <<"api", "tasks">>, <<"api", "tasks", "id">>,
              <<"api", "tasks", "status", "s">>}

isProduction == nodeEnv = "production"

NoCookieOp == [op |-> "none", path |-> RootPath, maxAge |-> 0,
               httpOnly |-> FALSE, secure |-> FALSE, sameSite |-> ""]

\* res.cookie("token", ..): no path option, Express sets Path=/
tokenCookieOptions ==
    [op |-> "set", path |-> RootPath, maxAge |-> ACCESS_COOKIE_MAX_AGE,
     httpOnly |-> TRUE, secure |-> isProduction,
     sameSite |-> IF isProduction THEN "none" ELSE "strict"]

\* res.cookie("refreshToken", ..)
refreshCookieOptions_rootPath ==
    [op |-> "set", path |-> RootPath, maxAge |-> REFRESH_COOKIE_MAX_AGE,
     httpOnly |-> TRUE, secure |-> isProduction,
     sameSite |-> IF isProduction THEN "none" ELSE "strict"]
refreshCookieOptions ==
    [op |-> "set", path |-> RefreshPath, maxAge |-> REFRESH_COOKIE_MAX_AGE,
     httpOnly |-> TRUE, secure |-> isProduction,
     sameSite |-> IF isProduction THEN "none" ELSE "strict"]

\* res.clearCookie("token", ..) / res.clearCookie("refreshToken", ..)
clearTokenOptions ==
    [op |-> "clear", path |-> RootPath, maxAge |-> 0,
     httpOnly |-> TRUE, secure |-> isProduction,
     sameSite |-> IF isProduction THEN "none" ELSE "strict"]
clearRefreshOptions ==
    [op |-> "clear", path |-> RefreshPath, maxAge |-> 0,
     httpOnly |-> TRUE, secure |-> isProduction,
     sameSite |-> IF isProduction THEN "none" ELSE "strict"]

\* a request and, once the controller has answered, its response.
\*   status, body, the cookies   what goes on the wire
\*   message, userId             the service's result
\*   tok, atok   the refreshToken / token cookie the request carries
\*   uid         the user document the lookup returned, or req.userId as
\*               authMiddleware set it (0 for none)
\*   taskId, title, taskStatus   req.params.id / req.params.status, req.body
\*   at          the time of the lookup
\*   calls       the calls of UserRepository / TaskRepository made so far
\*   late        the refresh token carried had been rotated before arrival
\*   out         the refresh token carried belongs to a user whose logout
\*               had been answered, with no login since, at arrival
\*   cur         the refresh token carried was the one written last for its
\*               user, with no logout since, at arrival
\*   had         the email presented belonged to a user at arrival
\*   same        the password presented is the one the user registered
\*   live        the access token carried was issued by this server to a user
\*               whose refreshToken is set at arrival
NoReq == [op |-> "none", pc |-> "idle", tok |-> NoCookie, atok |-> NoAccess,
          email |-> 0, password |-> NoPassword, uid |-> 0, at |-> 0,
          had |-> FALSE, same |-> FALSE, late |-> FALSE, out |-> FALSE, cur |-> FALSE, live |-> FALSE,
          taskId |-> 0, title |-> 0, taskStatus |-> "", calls |-> 0,
          status |-> 0, message |-> "", userId |-> 0, body |-> <<>>,
          tokenCookie |-> NoCookieOp, token |-> NoAccess,
          refreshCookie |-> NoCookieOp, refreshToken |-> NoCookie]

\* res.status(status).json({ message })
Plain(r, status, message) ==
    [r EXCEPT !.pc = "done", !.status = status, !.message = message,
              !.body = [message |-> message]]

\* --------------------------------------------------------- client reducers
initialState == [userId |-> 0, isAuthenticated |-> FALSE,
                 loading |-> FALSE, error |-> ""]

pending(state) == [state EXCEPT !.loading = TRUE, !.error = ""]

fulfilled(state, r) ==
    CASE r.op = "register" -> [state EXCEPT !.loading = FALSE, !.userId = r.userId]
      [] r.op = "login"    -> [state EXCEPT !.loading = FALSE,
                                      !.isAuthenticated = TRUE, !.userId = r.userId]
      [] r.op = "refresh"  -> [state EXCEPT !.loading = FALSE,
                                      !.isAuthenticated = TRUE, !.userId = r.userId]
      [] r.op = "logout"   -> initialState

rejected_generic(state, r) == [state EXCEPT !.loading = FALSE, !.error = r.message]
rejected(state, r) ==
    CASE r.op = "refresh" -> [state EXCEPT !.loading = FALSE,
                                     !.isAuthenticated = FALSE, !.userId = 0,
                                     !.error = r.message]
      [] OTHER            -> [state EXCEPT !.loading = FALSE, !.error = r.message]

\* axios resolves on 2xx and throws (error.response set) on every other status
thunkResult(state, r) ==
    IF r.status \in 200..299 THEN fulfilled(state, r) ELSE rejected(state, r)

\* taskSlice: a task document as the client holds it, null for none
NoDoc == [_id |-> 0, userId |-> 0, title |-> 0, status |-> ""]
taskInitialState == [tasks |-> <<>>, selectedTask |-> NoDoc,
                     loading |-> FALSE, error |-> ""]

taskPending(state) == [state EXCEPT !.loading = TRUE, !.error = ""]

\* state.tasks.findIndex((t) => t._id === id): 0 for -1
findIndex(list, id) ==
    IF \E i \in DOMAIN list : list[i]._id = id
    THEN CHOOSE i \in DOMAIN list :
            list[i]._id = id /\ \A j \in DOMAIN list : list[j]._id = id => i <= j
    ELSE 0

\* state.tasks.filter((t) => t._id !== id)
filterOut(list, id) ==
    LET keep(t) == t._id # id IN SelectSeq(list, keep)

taskFulfilled(state, r) ==
    CASE r.op \in {"getTasks", "getTasksByStatus"} ->
            [state EXCEPT !.loading = FALSE, !.tasks = r.body.tasks]
      [] r.op = "getTaskById" ->
            [state EXCEPT !.loading = FALSE, !.selectedTask = r.body.task]
      [] r.op = "createTask" ->
            [state EXCEPT !.loading = FALSE, !.tasks = Append(@, r.body.task)]
      [] r.op = "updateTask" ->
            LET index == findIndex(state.tasks, r.body.task._id) IN
            [state EXCEPT !.loading = FALSE,
                !.tasks = IF index # 0 THEN [@ EXCEPT ![index] = r.body.task] ELSE @,
                !.selectedTask = IF @._id = r.body.task._id THEN r.body.task ELSE @]
      [] r.op = "deleteTask" ->
            [state EXCEPT !.loading = FALSE,
                !.tasks = filterOut(@, r.taskId),
                !.selectedTask = IF @._id = r.taskId THEN NoDoc ELSE @]

taskRejected(state, r) == [state EXCEPT !.loading = FALSE, !.error = r.message]

taskThunkResult(state, r) ==
    IF r.status \in 200..299 THEN taskFulfilled(state, r) ELSE taskRejected(state, r)

\* ------------------------------------------------------------------- Init
EmptyJar == [token |-> NoAccess, tokenExp |-> 0, tokenPath |-> RootPath,
             refreshToken |-> NoCookie, refreshExp |-> 0, refreshPath |-> RootPath]

Init ==
    /\ users = <<>>
    /\ tasks = <<>>
    /\ jwtSecret \in {"secret", ""}
    /\ nodeEnv \in {"production", "development"}
    /\ now = 0
    /\ ticks = 0
    /\ procs = [p \in Procs |-> NoReq]
    /\ resp = NoReq
    /\ nreq = 0
    /\ auth = initialState
    /\ jar = EmptyJar
    /\ slice = taskInitialState
    /\ net = <<>>
    /\ ui = "idle"
    /\ toks = <<>>
    /\ accs = {}
    /\ pws = <<>>
    /\ lo = <<>>
    /\ last = <<>>

\* request slots are interchangeable: a new request takes the first free one;
\* a response is on the wire for one step, nothing else happens meanwhile
Quiet == resp.pc = "idle"
Free(p) == /\ Quiet
           /\ nreq < MaxRequests
           /\ procs[p].pc = "idle"
           /\ \A q \in Procs : q < p => procs[q].pc # "idle"

Begin(op) == [NoReq EXCEPT !.op = op, !.at = now]

\* the request is answered at once / has to wait for the persistence layer
Answer(r) == resp' = r /\ nreq' = nreq + 1 /\ UNCHANGED procs
Await(p, r) == /\ procs' = [procs EXCEPT ![p] = [r EXCEPT !.pc = "write"]]
               /\ nreq' = nreq + 1
               /\ UNCHANGED resp
Answered(p, r) == resp' = r /\ procs' = [procs EXCEPT ![p] = NoReq] /\ UNCHANGED nreq

\* refresh tokens still to be generated by requests that passed their lookup
Reserved == Cardinality({p \in Procs : procs[p].pc = "write"
                                        /\ procs[p].op \in {"login", "refresh"}})

\* ------------------------------------------------------------- validation
\* Joi schemas of the auth routes: does schema.validate(req.body) pass
registerSchema(email, password) == email \in Emails /\ password \in Passwords
loginSchema(email, password) == email \in Emails /\ password # NoPassword

\* validate(schema): res.status(400).json({ message, errors })
ValidationFailed(r) ==
    [Plain(r, 400, "Validation failed") EXCEPT
        !.body = [message |-> "Validation failed", errors |-> "error.details"]]

\* AuthService.register / login: if (!email || !password)
credentialsMissing_never(email, password) == FALSE
credentialsMissing(email, password) == email = NoEmail \/ password = NoPassword

\* --------------------------------------------------------------- register
\* registerUser: the status of a failed registration
registerStatus_badRequest(message) == 400
registerStatus(message) == IF message = "User already exists" THEN 409 ELSE 400

\* registerUser and AuthService.register up to the answer of findByEmail
RegisterStart(p, email, password) ==
    /\ Free(p)
    /\ LET r == [Begin("register") EXCEPT !.email = email, !.calls = 1,
                    !.had = (findByEmail(email) # 0)] IN
       IF credentialsMissing(email, password)
       THEN Answer(Plain([r EXCEPT !.calls = 0],
                         registerStatus("Email and password are required"),
                         "Email and password are required"))
       ELSE IF findByEmail(email) # 0
       THEN Answer(Plain(r, registerStatus("User already exists"), "User already exists"))
       ELSE Await(p, [r EXCEPT !.password = password])
    /\ UNCHANGED <<server, clock>>

\* UserRepository.create (the unique index on email rejects a duplicate: the
\* service catches the error) and the controller's answer
RegisterCreate(p) ==
    /\ Quiet
    /\ procs[p].pc = "write" /\ procs[p].op = "register"
    /\ LET r == [procs[p] EXCEPT !.password = NoPassword, !.calls = 2] IN
       IF findByEmail(procs[p].email) # 0
       THEN /\ Answered(p, Plain(r, registerStatus("An error occurred during registration"),
                                 "An error occurred during registration"))
            /\ UNCHANGED <<users, pws, lo, last>>
       ELSE /\ users' = Append(users, [email |-> procs[p].email,
                                       password |-> hashPassword(procs[p].password,
                                                                 Len(users) + 1),
                                       refreshToken |-> NullHash])
            /\ pws' = Append(pws, procs[p].password)
            /\ lo' = Append(lo, 0)
            /\ last' = Append(last, "none")
            /\ Answered(p, [Plain(r, 201, "User registered successfully")
                              EXCEPT !.userId = Len(users) + 1,
                                     !.body = [message |-> "User registered successfully",
                                               userId |-> Len(users) + 1]])
    /\ UNCHANGED <<env, tasks, toks, accs, clock, client>>

\* ------------------------------------------------------------------ login
\* AuthService.login up to generateToken: the user whose credentials were
\* presented, or the failure returned
login_credentials_userNotFound(email, password) ==
    LET user == findByEmail(email) IN
    IF user = 0
    THEN [success |-> FALSE, message |-> "User not found", userId |-> 0]
    ELSE IF ~verifyPassword(password, users[user].password)
    THEN [success |-> FALSE, message |-> "Invalid credentials", userId |-> 0]
    ELSE [success |-> TRUE, message |-> "", userId |-> user]
login_credentials(email, password) ==
    LET user == findByEmail(email) IN
    IF user = 0
    THEN [success |-> FALSE, message |-> "Invalid credentials", userId |-> 0]
    ELSE IF ~verifyPassword(password, users[user].password)
    THEN [success |-> FALSE, message |-> "Invalid credentials", userId |-> 0]
    ELSE [success |-> TRUE, message |-> "", userId |-> user]

\* loginUser and AuthService.login up to the call of updateRefreshToken
LoginStart(p, email, password) ==
    /\ Free(p)
    /\ LET result == login_credentials(email, password)
           r == [Begin("login") EXCEPT !.email = email, !.uid = result.userId,
                    !.calls = 1,
                    !.same = (findByEmail(email) # 0
                              /\ pws[findByEmail(email)] = password)] IN
       IF credentialsMissing(email, password)
       THEN Answer(Plain([Begin("login") EXCEPT !.email = email, !.password = password],
                         401, "Email and password are required"))
       ELSE IF ~result.success
       THEN Answer(Plain([r EXCEPT !.password = password], 401, result.message))
       ELSE IF generateTokenThrows
       THEN Answer(Plain(r, 401, "An error occurred during login"))
       ELSE /\ Len(toks) + Reserved < MaxTokens
            /\ Await(p, r)
    /\ UNCHANGED <<server, clock>>

\* the result of a successful login or refresh, as the controller sends it
Issued_tokenInBody(r, message, userId, token, refreshToken) ==
    [r EXCEPT !.pc = "respond", !.status = 200, !.message = message, !.userId = userId,
       !.body = [message |-> message, userId |-> userId, token |-> token],
       !.tokenCookie = tokenCookieOptions,
       !.token = token,
       !.refreshCookie = refreshCookieOptions,
       !.refreshToken = refreshToken]
Issued(r, message, userId, token, refreshToken) ==
    [r EXCEPT !.pc = "respond", !.status = 200, !.message = message, !.userId = userId,
       !.body = [message |-> message, userId |-> userId],
       !.tokenCookie = tokenCookieOptions,
       !.token = token,
       !.refreshCookie = refreshCookieOptions,
       !.refreshToken = refreshToken]

\* what is recorded of the n-th refresh token: its owner, when it was
\* generated, whether it was sent, how many refresh calls succeeded with it
NewTok(userId) == [uid |-> userId, at |-> now, ret |-> FALSE, wins |-> 0]

\* AuthService.login's return once updateRefreshToken has resolved
\* (a failure returned after the write)
loginResult_failed(r, userId, token, refreshToken) ==
    [Issued(r, "", 0, token, refreshToken) EXCEPT
        !.status = 401, !.message = "An error occurred during login",
        !.body = [message |-> "An error occurred during login"]]
loginResult(r, userId, token, refreshToken) ==
    Issued(r, "Login successful", userId, token, refreshToken)

\* generateToken, generateRefreshToken, hashRefreshToken, updateRefreshToken
LoginWrite(p) ==
    /\ Quiet
    /\ procs[p].pc = "write" /\ procs[p].op = "login"
    /\ LET userId == procs[p].uid
           token == generateToken(userId)
           refreshToken == generateRefreshToken(Len(toks) + 1) IN
       /\ users' = storeRefreshToken(userId, refreshToken)
       /\ toks' = Append(toks, NewTok(userId))
       /\ lo' = [lo EXCEPT ![userId] = 0]
       /\ last' = [last EXCEPT ![userId] = "login"]
       /\ procs' = [procs EXCEPT ![p] = loginResult([@ EXCEPT !.calls = 2],
                                                    userId, token, refreshToken)]
    /\ UNCHANGED <<env, tasks, accs, pws, resp, nreq, clock, client>>

\* ---------------------------------------------------------------- refresh
\* the refresh token generated last for user u (0 for none)
Latest(u) ==
    LET S == {n \in 1..Len(toks) : toks[n].uid = u} IN
    IF S = {} THEN 0 ELSE CHOOSE n \in S : \A m \in S : m <= n

\* RT(n) is in the client's hands and nothing wrote its user's refreshToken
\* after the call that generated it
Current(n) == /\ toks[n].ret
              /\ n = Latest(toks[n].uid)
              /\ last[toks[n].uid] # "logout"

\* the refreshToken controller and AuthService.refresh up to the call of
\* updateRefreshToken
RefreshStart(p, tok) ==
    /\ Free(p)
    /\ LET user == findByRefreshToken(hashRefreshToken(tok))
           known == tok # NoCookie /\ tok[2] \in 1..Len(toks)
           r == [Begin("refresh") EXCEPT !.tok = tok, !.calls = 1,
                    !.late = (known /\ toks[tok[2]].wins > 0),
                    !.out = (known /\ lo[toks[tok[2]].uid] = 2),
                    !.cur = (known /\ Current(tok[2]))] IN
       IF tok = NoCookie
       THEN Answer(Plain([r EXCEPT !.calls = 0], 401, "Refresh token is required"))
       ELSE IF user = 0
       THEN Answer(Plain(r, 401, "Invalid refresh token"))
       ELSE IF generateTokenThrows
       THEN Answer(Plain([r EXCEPT !.uid = user], 401,
                         "An error occurred during token refresh"))
       ELSE /\ Len(toks) + Reserved < MaxTokens
            /\ Await(p, [r EXCEPT !.uid = user])
    /\ UNCHANGED <<server, clock>>

\* generateToken, generateRefreshToken, hashRefreshToken, updateRefreshToken
RefreshWrite(p) ==
    /\ Quiet
    /\ procs[p].pc = "write" /\ procs[p].op = "refresh"
    /\ LET userId == procs[p].uid
           newAccessToken == generateToken(userId)
           newRefreshToken == generateRefreshToken(Len(toks) + 1) IN
       /\ users' = rotateRefreshToken(userId, newRefreshToken)
       /\ toks' = Append(toks, NewTok(userId))
       /\ procs' = [procs EXCEPT ![p] =
                       Issued([@ EXCEPT !.calls = 2],
                              "Token refreshed successfully", userId,
                              newAccessToken, newRefreshToken)]
       /\ last' = [last EXCEPT ![userId] = "refresh"]
    /\ UNCHANGED <<env, tasks, accs, pws, lo, resp, nreq, clock, client>>

\* the controller's res.cookie / res.status(200).json for login and refresh:
\* from here on the client holds the pair
IssueRespond(p) ==
    /\ Quiet
    /\ procs[p].pc = "respond" /\ procs[p].op \in {"login", "refresh"}
    /\ Answered(p, [procs[p] EXCEPT !.pc = "done"])
    /\ LET issued == procs[p].refreshToken[2]
           t == [toks EXCEPT ![issued].ret = TRUE] IN
       toks' = IF procs[p].op = "refresh"
               THEN [t EXCEPT ![procs[p].tok[2]].wins = @ + 1]
               ELSE t
    /\ accs' = accs \cup {procs[p].token}
    /\ UNCHANGED <<users, env, tasks, pws, lo, last, clock, client>>

\* ----------------------------------------------------------------- logout
authMiddleware_session(token) ==
    IF token = NoAccess
    THEN [status |-> 401, message |-> "Unauthorized - No token provided", userId |-> 0]
    ELSE IF jwtSecret = ""
    THEN [status |-> 500, message |-> "Internal server error", userId |-> 0]
    ELSE IF /\ jwtVerify(token, jwtSecret)
            /\ token.userId \in UserIds
            /\ users[token.userId].refreshToken # NullHash
    THEN [status |-> 200, message |-> "", userId |-> token.userId]
    ELSE [status |-> 401, message |-> "Unauthorized - Invalid token", userId |-> 0]

authMiddleware(token) ==
    IF token = NoAccess
    THEN [status |-> 401, message |-> "Unauthorized - No token provided", userId |-> 0]
    ELSE IF jwtSecret = ""
    THEN [status |-> 500, message |-> "Internal server error", userId |-> 0]
    ELSE IF jwtVerify(token, jwtSecret)
    THEN [status |-> 200, message |-> "", userId |-> token.userId]
    ELSE [status |-> 401, message |-> "Unauthorized - Invalid token", userId |-> 0]

\* AuthService.verifyToken: the decoded userId, 0 for null; the try block
\* throws when the secret is unset and when jwt.verify throws, catch
\* returns null
Thrown == -1
verifyToken_uncaught(token) ==
    IF jwtSecret = "" THEN Thrown
    ELSE IF jwtVerifyError(token, jwtSecret) # "" THEN Thrown
    ELSE token.userId
verifyToken(token) ==
    LET try == IF jwtSecret = "" THEN Thrown
               ELSE IF jwtVerifyError(token, jwtSecret) # "" THEN Thrown
               ELSE token.userId IN
    IF try = Thrown THEN 0 ELSE try

\* router.post("/logout", authMiddleware, logoutUser) up to the call of
\* updateRefreshToken
LogoutStart(p, atok) ==
    /\ Free(p)
    /\ LET m == authMiddleware(atok)
           r == [Begin("logout") EXCEPT !.atok = atok,
                    !.live = (atok \in accs /\ atok.userId \in UserIds
                              /\ users[atok.userId].refreshToken # NullHash)] IN
       IF m.status # 200
       THEN Answer(Plain(r, m.status, m.message))
       ELSE Await(p, [r EXCEPT !.uid = m.userId])
    /\ UNCHANGED <<server, clock>>

\* AuthService.logout: updateRefreshToken(userId, null)
LogoutWrite(p) ==
    /\ Quiet
    /\ procs[p].pc = "write" /\ procs[p].op = "logout"
    /\ users' = logout(procs[p].uid)
    /\ lo' = [u \in DOMAIN lo |-> IF u = procs[p].uid /\ lo[u] = 0 THEN 1 ELSE lo[u]]
    /\ last' = [last EXCEPT ![procs[p].uid] = "logout"]
    /\ procs' = [procs EXCEPT ![p].pc = "respond", ![p].calls = 1]
    /\ UNCHANGED <<env, tasks, toks, accs, pws, resp, nreq, clock, client>>

\* res.clearCookie("token"), res.clearCookie("refreshToken"), 200
LogoutRespond(p) ==
    /\ Quiet
    /\ procs[p].pc = "respond" /\ procs[p].op = "logout"
    /\ Answered(p, [Plain(procs[p], 200, "Logout successful") EXCEPT
                      !.tokenCookie = clearTokenOptions,
                      !.refreshCookie = clearRefreshOptions])
    /\ lo' = [u \in DOMAIN lo |-> IF u = procs[p].uid /\ lo[u] = 1 THEN 2 ELSE lo[u]]
    /\ UNCHANGED <<users, env, tasks, toks, accs, pws, last, clock, client>>

\* ------------------------------------------------------------------- time
Tick(d) ==
    /\ Quiet
    /\ ticks < MaxTicks
    /\ now' = now + d
    /\ ticks' = ticks + 1
    /\ UNCHANGED <<server, procs, resp, nreq, client>>

\* ------------------------------------------------- requests of any client
\* refresh tokens a client can hold: those the server sent
Returned == {generateRefreshToken(n) : n \in {m \in 1..Len(toks) : toks[m].ret}}
RefreshCookies == Returned \cup {NoCookie, GarbageToken}
AccessCookies == accs \cup {NoAccess, MalformedAccess}
                      \cup {ForgedAccess(u) : u \in UserIds}

\* router.post("/register", authLimiter, validate(registerSchema), registerUser)
ReqRegister(p, email, password) ==
    /\ IF registerSchema(email, password)
       THEN RegisterStart(p, email, password)
       ELSE /\ Free(p)
            /\ Answer(ValidationFailed([Begin("register") EXCEPT
                                           !.email = email, !.password = password]))
            /\ UNCHANGED <<server, clock>>
    /\ UNCHANGED client

\* router.post("/login", authLimiter, validate(loginSchema), loginUser)
ReqLogin(p, email, password) ==
    /\ IF loginSchema(email, password)
       THEN LoginStart(p, email, password)
       ELSE /\ Free(p)
            /\ Answer(ValidationFailed([Begin("login") EXCEPT
                                           !.email = email, !.password = password]))
            /\ UNCHANGED <<server, clock>>
    /\ UNCHANGED client
ReqRefresh(p, tok) == RefreshStart(p, tok) /\ UNCHANGED client
ReqLogout(p, atok) == LogoutStart(p, atok) /\ UNCHANGED client

\* the response has left, the connection closes
Close ==
    /\ ~Quiet
    /\ resp' = NoReq
    /\ UNCHANGED <<server, clock, procs, nreq, client>>

Next ==
    \/ \E p \in Procs, e \in Emails, w \in ShortPasswords : ReqRegister(p, e, w)
    \/ \E p \in Procs : RegisterCreate(p)
    \/ \E p \in Procs, e \in Emails, w \in ShortPasswords : ReqLogin(p, e, w)
    \/ \E p \in Procs : LoginWrite(p)
    \/ \E p \in Procs, t \in RefreshCookies : ReqRefresh(p, t)
    \/ \E p \in Procs : RefreshWrite(p)
    \/ \E p \in Procs : IssueRespond(p)
    \/ \E p \in Procs, a \in AccessCookies : ReqLogout(p, a)
    \/ \E p \in Procs : LogoutWrite(p)
    \/ \E p \in Procs : LogoutRespond(p)
    \/ Close
    \/ \E d \in {JWT_EXPIRY, REFRESH_TOKEN_EXPIRY} : Tick(d)

Spec == Init /\ [][Next]_vars

\* ------------------------------------------------------------ the browser
\* a cookie goes with a request when its path is a prefix of the request's
pathMatch(cookiePath, requestPath) ==
    /\ Len(cookiePath) <= Len(requestPath)
    /\ SubSeq(requestPath, 1, Len(cookiePath)) = cookiePath

\* the cookies the browser attaches to a request: unexpired and path-matched
cookieToken(path) ==
    IF now < jar.tokenExp /\ pathMatch(jar.tokenPath, path) THEN jar.token ELSE NoAccess
cookieRefreshToken(path) ==
    IF now < jar.refreshExp /\ pathMatch(jar.refreshPath, path)
    THEN jar.refreshToken ELSE NoCookie

\* Set-Cookie / clearCookie of a response applied to the jar; a cookie is
\* replaced or removed by a Set-Cookie of the same name and path
setCookies(j, r) ==
    LET a == CASE r.tokenCookie.op = "set" ->
                    [j EXCEPT !.token = r.token, !.tokenPath = r.tokenCookie.path,
                              !.tokenExp = now + r.tokenCookie.maxAge]
                [] r.tokenCookie.op = "clear" /\ r.tokenCookie.path = j.tokenPath ->
                    [j EXCEPT !.token = NoAccess, !.tokenExp = 0, !.tokenPath = RootPath]
                [] OTHER -> j IN
    CASE r.refreshCookie.op = "set" ->
            [a EXCEPT !.refreshToken = r.refreshToken,
                      !.refreshPath = r.refreshCookie.path,
                      !.refreshExp = now + r.refreshCookie.maxAge]
      [] r.refreshCookie.op = "clear" /\ r.refreshCookie.path = a.refreshPath ->
            [a EXCEPT !.refreshToken = NoCookie, !.refreshExp = 0,
                      !.refreshPath = RootPath]
      [] OTHER -> a

\* the thunks of authThunks.ts: the pending reducer runs, axios sends the
\* request with the jar's cookies (withCredentials)
dispatchRegisterUser(p, email, password) ==
    /\ RegisterStart(p, email, password)
    /\ auth' = pending(auth)
    /\ UNCHANGED <<jar, page>>
dispatchLoginUser(p, email, password) ==
    /\ LoginStart(p, email, password)
    /\ auth' = pending(auth)
    /\ UNCHANGED <<jar, page>>
dispatchRefreshAccessToken(p) ==
    /\ RefreshStart(p, cookieRefreshToken(<<"auth", "refresh">>))
    /\ auth' = pending(auth)
    /\ UNCHANGED <<jar, page>>
dispatchLogoutUser(p) ==
    /\ LogoutStart(p, cookieToken(<<"auth", "logout">>))
    /\ auth' = pending(auth)
    /\ UNCHANGED <<jar, page>>

\* the response arrives: cookies are stored, the thunk settles
Settle ==
    /\ ~Quiet
    /\ resp' = NoReq
    /\ jar' = setCookies(jar, resp)
    /\ auth' = thunkResult(auth, resp)
    /\ UNCHANGED <<server, clock, procs, nreq, page>>

\* one browser against the server
NextClient ==
    \/ \E p \in Procs, e \in Emails, w \in ShortPasswords : dispatchRegisterUser(p, e, w)
    \/ \E p \in Procs : RegisterCreate(p)
    \/ \E p \in Procs, e \in Emails, w \in ShortPasswords : dispatchLoginUser(p, e, w)
    \/ \E p \in Procs : LoginWrite(p)
    \/ \E p \in Procs : dispatchRefreshAccessToken(p)
    \/ \E p \in Procs : RefreshWrite(p)
    \/ \E p \in Procs : IssueRespond(p)
    \/ \E p \in Procs : dispatchLogoutUser(p)
    \/ \E p \in Procs : LogoutWrite(p)
    \/ \E p \in Procs : LogoutRespond(p)
    \/ Settle
    \/ \E d \in {JWT_EXPIRY, REFRESH_TOKEN_EXPIRY} : Tick(d)

SpecClient == Init /\ [][NextClient]_vars

\* ---------------------------------------------------------- configuration
\* the process is started again with another environment (dotenv.config();
\* process.env.JWT_SECRET is read at every call); the database keeps its
\* documents, no request is in flight
Restart(secret) ==
    /\ Quiet
    /\ \A p \in Procs : procs[p].pc = "idle"
    /\ secret # jwtSecret
    /\ jwtSecret' = secret
    /\ UNCHANGED <<users, tasks, nodeEnv, toks, accs, pws, lo, last,
                   clock, procs, resp, nreq, client>>

NextRestart ==
    \/ Next
    \/ \E secret \in {"secret", ""} : Restart(secret)

SpecRestart == Init /\ [][NextRestart]_vars

\* ------------------------------------------------- registration and login
\* one request at a time, with passwords of every length the validators let
\* through (8 to 128 characters)
NextCredentials ==
    \/ \E e \in Emails, w \in Passwords : ReqRegister(1, e, w)
    \/ RegisterCreate(1)
    \/ \E e \in Emails, w \in Passwords : ReqLogin(1, e, w)
    \/ LoginWrite(1)
    \/ IssueRespond(1)
    \/ Close

SpecCredentials == Init /\ [][NextCredentials]_vars

\* ------------------------------------------------------------------ tasks
Titles == 1..MaxTitles
NoTitle == 0                     \* title absent from the body (undefined)
EmptyTitle == -1                 \* the empty string, or white space only
LongTitle == -2                  \* a string of more than 200 characters
validStatuses == {"pending", "in-progress", "completed"}
NoStatus == "undefined"          \* status absent from the body (undefined)
TaskIds == 1..MaxTasks           \* well-formed ObjectIds a client may send
BadId == 0                       \* a string that is no ObjectId

\* a deleted document leaves its _id unused for ever
NoTask == [_id |-> 0, userId |-> 0, title |-> 0, status |-> ""]

\* TaskRepository: every query filters on userId
findByIdAndUserId_anyUser(taskId, userId) ==
    IF taskId \in 1..Len(tasks) /\ tasks[taskId] # NoTask
    THEN taskId ELSE 0
findByIdAndUserId(taskId, userId) ==
    IF taskId \in 1..Len(tasks) /\ tasks[taskId] # NoTask
       /\ tasks[taskId].userId = userId
    THEN taskId ELSE 0

\* Task.find(filter).sort({ createdAt: -1 }): newest first
sortByCreatedAtDesc(ids) ==
    [i \in 1..Cardinality(ids) |->
        tasks[CHOOSE n \in ids : Cardinality({m \in ids : m > n}) = i - 1]]

findByUserId(userId) ==
    sortByCreatedAtDesc({n \in 1..Len(tasks) : tasks[n] # NoTask
                                                /\ tasks[n].userId = userId})

findByUserIdAndStatus(userId, status) ==
    sortByCreatedAtDesc({n \in 1..Len(tasks) : /\ tasks[n] # NoTask
                                                /\ tasks[n].userId = userId
                                                /\ tasks[n].status = status})

\* TaskService: if (status && !validStatuses.includes(status))
statusRejected(status) == status \notin {NoStatus, ""} /\ status \notin validStatuses

\* TaskService.createTask: the message of the check that fails, "" for none
createTask_invalid(title, status) ==
    IF title \in {NoTitle, EmptyTitle} THEN "Title is required"
    ELSE IF title = LongTitle THEN "Title must be less than 200 characters"
    ELSE IF statusRejected(status)
    THEN "Status must be one of: pending, in-progress, completed"
    ELSE ""

\* TaskService.updateTask, after the task was found
updateTask_invalid(title, status) ==
    IF title = EmptyTitle THEN "Title cannot be empty"
    ELSE IF title = LongTitle THEN "Title must be less than 200 characters"
    ELSE IF statusRejected(status)
    THEN "Status must be one of: pending, in-progress, completed"
    ELSE ""

\* Joi schemas of the task routes (description left out)
createTaskSchema(title, status) ==
    title \in Titles /\ status \in validStatuses \cup {NoStatus}
updateTaskSchema(title, status) ==
    /\ title \in Titles \cup {NoTitle}
    /\ status \in validStatuses \cup {NoStatus}
    /\ title # NoTitle \/ status # NoStatus

\* one more repository call made
Called(r) == [r EXCEPT !.calls = @ + 1]

\* router.<method>(path, authMiddleware, ..): the response of authMiddleware,
\* or the request as the controller receives it (req.userId set)
\* (params and body play no part in a request authMiddleware answers)
Gate(r, atok) ==
    LET m == authMiddleware(atok) IN
    IF m.status # 200
    THEN Plain([Begin(r.op) EXCEPT !.atok = atok], m.status, m.message)
    ELSE IF m.userId = 0 THEN Plain([r EXCEPT !.atok = atok], 401, "Unauthorized")
    ELSE [r EXCEPT !.atok = atok, !.uid = m.userId]

\* res.status(status).json({ message, tasks }) / ({ message, task })
WithTasks(r, message, docs) ==
    [r EXCEPT !.pc = "done", !.status = 200, !.message = message,
              !.body = [message |-> message, tasks |-> docs]]
WithTask(r, status, message, doc) ==
    [r EXCEPT !.pc = "done", !.status = status, !.message = message,
              !.body = [message |-> message, task |-> doc]]

\* GET /api/tasks
GetTasks(p, atok) ==
    /\ Free(p)
    /\ LET r == Gate(Begin("getTasks"), atok) IN
       IF r.pc = "done" THEN Answer(r)
       ELSE Answer(WithTasks(Called(r), "Tasks retrieved successfully",
                             findByUserId(r.uid)))
    /\ UNCHANGED <<server, clock>>

\* GET /api/tasks/status/:status
GetTasksByStatus(p, atok, status) ==
    /\ Free(p)
    /\ LET r == Gate([Begin("getTasksByStatus") EXCEPT !.taskStatus = status], atok) IN
       IF r.pc = "done" THEN Answer(r)
       ELSE IF status \notin validStatuses
       THEN Answer(Plain(r, 400, "Status must be one of: pending, in-progress, completed"))
       ELSE Answer(WithTasks(Called(r), "Tasks retrieved successfully",
                             findByUserIdAndStatus(r.uid, status)))
    /\ UNCHANGED <<server, clock>>

\* GET /api/tasks/:id (Task.findOne throws a CastError on a malformed id)
GetTaskById(p, atok, taskId) ==
    /\ Free(p)
    /\ LET r == Gate([Begin("getTaskById") EXCEPT !.taskId = taskId], atok) IN
       IF r.pc = "done" THEN Answer(r)
       ELSE IF taskId = BadId
       THEN Answer(Plain(Called(r), 400, "An error occurred while retrieving the task"))
       ELSE IF findByIdAndUserId(taskId, r.uid) = 0
       THEN Answer(Plain(Called(r), 404,
                         "Task not found or you do not have permission to access it"))
       ELSE Answer(WithTask(Called(r), 200, "Task retrieved successfully", tasks[taskId]))
    /\ UNCHANGED <<server, clock>>

\* createTask (controller and service): status || "pending"
CreateTask(p, atok, title, status) ==
    /\ Free(p)
    /\ LET r == Gate([Begin("createTask") EXCEPT !.title = title,
                                                 !.taskStatus = status], atok)
           doc == [_id |-> Len(tasks) + 1, userId |-> r.uid, title |-> title,
                   status |-> IF status \in {NoStatus, ""} THEN "pending" ELSE status] IN
       IF r.pc = "done" THEN Answer(r) /\ UNCHANGED tasks
       ELSE IF createTask_invalid(title, status) # ""
       THEN Answer(Plain(r, 400, createTask_invalid(title, status))) /\ UNCHANGED tasks
       ELSE /\ Len(tasks) < MaxTasks
            /\ tasks' = Append(tasks, doc)
            /\ Answer(WithTask(Called(r), 201, "Task created successfully", doc))
    /\ UNCHANGED <<accounts, clock>>

\* updateTask (controller and service) up to the call of TaskRepository.update
UpdateTaskStart(p, atok, taskId, title, status) ==
    /\ Free(p)
    /\ LET r == Gate([Begin("updateTask") EXCEPT !.taskId = taskId, !.title = title,
                                                 !.taskStatus = status], atok) IN
       IF r.pc = "done" THEN Answer(r)
       ELSE IF taskId = BadId
       THEN Answer(Plain(Called(r), 400, "An error occurred while updating the task"))
       ELSE IF findByIdAndUserId(taskId, r.uid) = 0
       THEN Answer(Plain(Called(r), 404,
                         "Task not found or you do not have permission to modify it"))
       ELSE IF updateTask_invalid(title, status) # ""
       THEN Answer(Plain(Called(r), 400, updateTask_invalid(title, status)))
       ELSE Await(p, Called(r))
    /\ UNCHANGED <<server, clock>>

\* TaskRepository.update: findOneAndUpdate({ _id, userId }, data), and the
\* controller's answer
UpdateTaskWrite(p) ==
    /\ Quiet
    /\ procs[p].pc = "write" /\ procs[p].op = "updateTask"
    /\ LET r == Called(procs[p])
           n == findByIdAndUserId(r.taskId, r.uid)
           doc == [tasks[n] EXCEPT
                     !.title = IF r.title = NoTitle THEN @ ELSE r.title,
                     !.status = IF r.taskStatus = NoStatus THEN @ ELSE r.taskStatus] IN
       IF n = 0
       THEN Answered(p, Plain(r, 400, "Failed to update task")) /\ UNCHANGED tasks
       ELSE /\ tasks' = [tasks EXCEPT ![n] = doc]
            /\ Answered(p, WithTask(r, 200, "Task updated successfully", doc))
    /\ UNCHANGED <<accounts, clock, client>>

\* DELETE /api/tasks/:id: findOneAndDelete({ _id, userId })
DeleteTask(p, atok, taskId) ==
    /\ Free(p)
    /\ LET r == Gate([Begin("deleteTask") EXCEPT !.taskId = taskId], atok) IN
       IF r.pc = "done" THEN Answer(r) /\ UNCHANGED tasks
       ELSE IF taskId = BadId
       THEN /\ Answer(Plain(Called(r), 400, "An error occurred while deleting the task"))
            /\ UNCHANGED tasks
       ELSE IF findByIdAndUserId(taskId, r.uid) = 0
       THEN /\ Answer(Plain(Called(r), 404,
                            "Task not found or you do not have permission to delete it"))
            /\ UNCHANGED tasks
       ELSE /\ tasks' = [tasks EXCEPT ![taskId] = NoTask]
            /\ Answer(Plain(Called(r), 200, "Task deleted successfully"))
    /\ UNCHANGED <<accounts, clock>>

\* every registered user has logged in at time 0 (no login succeeds without
\* JWT_SECRET) and holds the pair issued
InitTasksServer ==
    /\ jwtSecret \in {"secret", ""}
    /\ nodeEnv \in {"production", "development"}
    /\ now = 0 /\ ticks = 0
    /\ nreq = MaxRequests - MaxTaskRequests
    /\ users = [u \in Emails |->
                  [email |-> u, password |-> hashPassword(<<1, 0>>, u),
                   refreshToken |-> IF jwtSecret = "" THEN NullHash
                                    ELSE hashRefreshToken(RT(u))]]
    /\ pws = [u \in Emails |-> <<1, 0>>]
    /\ toks = IF jwtSecret = "" THEN <<>>
              ELSE [u \in Emails |-> [uid |-> u, at |-> 0, ret |-> TRUE, wins |-> 0]]
    /\ accs = IF jwtSecret = "" THEN {}
              ELSE {[userId |-> u, iat |-> 0, sig |-> jwtSecret] : u \in Emails}
    /\ lo = [u \in Emails |-> 0]
    /\ last = [u \in Emails |-> IF jwtSecret = "" THEN "none" ELSE "login"]
    /\ tasks = <<>>
    /\ procs = [p \in Procs |-> NoReq]
    /\ resp = NoReq

InitTasks ==
    /\ InitTasksServer
    /\ auth = initialState
    /\ jar = EmptyJar
    /\ slice = taskInitialState
    /\ net = <<>>
    /\ ui = "idle"

ReqGetTasks(p, atok) == GetTasks(p, atok) /\ UNCHANGED client
ReqGetTasksByStatus(p, atok, status) == GetTasksByStatus(p, atok, status) /\ UNCHANGED client
ReqGetTaskById(p, atok, taskId) == GetTaskById(p, atok, taskId) /\ UNCHANGED client

\* router.post("/tasks", authMiddleware, validate(createTaskSchema), createTask)
postTasks(p, atok, title, status) ==
    LET r == Gate([Begin("createTask") EXCEPT !.title = title,
                                              !.taskStatus = status], atok) IN
    IF r.pc # "done" /\ ~createTaskSchema(title, status)
    THEN Free(p) /\ Answer(ValidationFailed(r)) /\ UNCHANGED <<server, clock>>
    ELSE CreateTask(p, atok, title, status)
ReqCreateTask(p, atok, title, status) ==
    postTasks(p, atok, title, status) /\ UNCHANGED client

\* router.put("/tasks/:id", authMiddleware, validate(updateTaskSchema), updateTask)
putTask(p, atok, taskId, title, status) ==
    LET r == Gate([Begin("updateTask") EXCEPT !.taskId = taskId, !.title = title,
                                              !.taskStatus = status], atok) IN
    IF r.pc # "done" /\ ~updateTaskSchema(title, status)
    THEN Free(p) /\ Answer(ValidationFailed(r)) /\ UNCHANGED <<server, clock>>
    ELSE UpdateTaskStart(p, atok, taskId, title, status)
ReqUpdateTask(p, atok, taskId, title, status) ==
    putTask(p, atok, taskId, title, status) /\ UNCHANGED client
ReqDeleteTask(p, atok, taskId) == DeleteTask(p, atok, taskId) /\ UNCHANGED client

NextTasks ==
    \/ \E p \in Procs, a \in AccessCookies : ReqGetTasks(p, a)
    \/ \E p \in Procs, a \in AccessCookies, s \in {"pending", "done"} :
          ReqGetTasksByStatus(p, a, s)
    \/ \E p \in Procs, a \in AccessCookies, n \in TaskIds \cup {BadId} :
          ReqGetTaskById(p, a, n)
    \/ \E p \in Procs, a \in AccessCookies, t \in Titles,
          s \in {NoStatus, "completed"} : ReqCreateTask(p, a, t, s)
    \/ \E p \in Procs, a \in AccessCookies, n \in TaskIds \cup {BadId},
          t \in {NoTitle, MaxTitles}, s \in {NoStatus, "completed"} :
          ReqUpdateTask(p, a, n, t, s)
    \/ \E p \in Procs : UpdateTaskWrite(p)
    \/ \E p \in Procs, a \in AccessCookies, n \in TaskIds \cup {BadId} :
          ReqDeleteTask(p, a, n)
    \/ \E p \in Procs, a \in AccessCookies : ReqLogout(p, a)
    \/ \E p \in Procs : LogoutWrite(p)
    \/ \E p \in Procs : LogoutRespond(p)
    \/ Close
    \/ \E d \in {JWT_EXPIRY} : Tick(d)

SpecTasks == InitTasks /\ [][NextTasks]_vars

\* ------------------------------------------------------- malformed input
\* what a client or another caller may send where the program expects an
\* e-mail address, a password, a title, a status
RawEmails == Emails \cup {NoEmail, BadEmail}
RawPasswords == ShortPasswords \cup {NoPassword, WeakPassword}
RawTitles == Titles \cup {NoTitle, EmptyTitle, LongTitle}
RawStatuses == validStatuses \cup {NoStatus, "", "done"}

\* the controllers and services called with what a body holds, no
\* validate(schema) in front of them
CallRegister(p, email, password) == RegisterStart(p, email, password) /\ UNCHANGED client
CallLogin(p, email, password) == LoginStart(p, email, password) /\ UNCHANGED client
CallCreateTask(p, atok, title, status) == CreateTask(p, atok, title, status) /\ UNCHANGED client
CallUpdateTask(p, atok, taskId, title, status) ==
    UpdateTaskStart(p, atok, taskId, title, status) /\ UNCHANGED client

\* the routes and the services under any input, one request at a time, the
\* e-mail addresses all registered
NextInput ==
    \/ \E e \in RawEmails, w \in RawPasswords : ReqRegister(1, e, w)
    \/ \E e \in RawEmails, w \in RawPasswords : CallRegister(1, e, w)
    \/ \E e \in RawEmails, w \in RawPasswords : ReqLogin(1, e, w)
    \/ \E e \in RawEmails, w \in RawPasswords : CallLogin(1, e, w)
    \/ LoginWrite(1)
    \/ \E t \in RefreshCookies : ReqRefresh(1, t)
    \/ RefreshWrite(1)
    \/ IssueRespond(1)
    \/ \E a \in accs \cup {NoAccess}, t \in RawTitles, s \in RawStatuses :
          ReqCreateTask(1, a, t, s)
    \/ \E a \in accs \cup {NoAccess}, n \in TaskIds, t \in RawTitles, s \in RawStatuses :
          ReqUpdateTask(1, a, n, t, s)
    \/ UpdateTaskWrite(1)
    \/ Close

SpecInput == InitTasks /\ [][NextInput]_vars

\* TaskService.createTask and updateTask called with any strings
NextTaskService ==
    \/ \E p \in Procs, a \in accs, t \in RawTitles, s \in RawStatuses :
          CallCreateTask(p, a, t, s)
    \/ \E p \in Procs, a \in accs, n \in TaskIds, t \in RawTitles, s \in RawStatuses :
          CallUpdateTask(p, a, n, t, s)
    \/ \E p \in Procs : UpdateTaskWrite(p)
    \/ Close

SpecTaskService == InitTasks /\ [][NextTaskService]_vars

\* ------------------------------------------------- the browser's task list
\* the browser of user 1, logged in at time 0: the pair is in its jar
InitTaskClient ==
    /\ InitTasksServer
    /\ jwtSecret = "secret"
    /\ auth = [initialState EXCEPT !.isAuthenticated = TRUE, !.userId = 1]
    /\ jar = [token |-> [userId |-> 1, iat |-> 0, sig |-> jwtSecret],
              tokenExp |-> ACCESS_COOKIE_MAX_AGE, tokenPath |-> RootPath,
              refreshToken |-> RT(1), refreshExp |-> REFRESH_COOKIE_MAX_AGE,
              refreshPath |-> RefreshPath]
    /\ slice = taskInitialState
    /\ net = <<>>
    /\ ui = "idle"

\* the thunks of taskThunks.ts: the pending reducer runs, axios sends the
\* request with the jar's cookies
dispatchFetchTasks(p) ==
    /\ GetTasks(p, cookieToken(<<"api", "tasks">>))
    /\ slice' = taskPending(slice)
    /\ UNCHANGED <<auth, jar, net, ui>>
dispatchFetchTasksByStatus(p, status) ==
    /\ GetTasksByStatus(p, cookieToken(<<"api", "tasks", "status", "s">>), status)
    /\ slice' = taskPending(slice)
    /\ UNCHANGED <<auth, jar, net, ui>>
dispatchFetchTaskById(p, taskId) ==
    /\ GetTaskById(p, cookieToken(<<"api", "tasks", "id">>), taskId)
    /\ slice' = taskPending(slice)
    /\ UNCHANGED <<auth, jar, net, ui>>
dispatchCreateTask(p, title, status) ==
    /\ postTasks(p, cookieToken(<<"api", "tasks">>), title, status)
    /\ slice' = taskPending(slice)
    /\ UNCHANGED <<auth, jar, net, ui>>
dispatchUpdateTask(p, taskId, title, status) ==
    /\ putTask(p, cookieToken(<<"api", "tasks", "id">>), taskId, title, status)
    /\ slice' = taskPending(slice)
    /\ UNCHANGED <<auth, jar, net, ui>>
dispatchDeleteTask(p, taskId) ==
    /\ DeleteTask(p, cookieToken(<<"api", "tasks", "id">>), taskId)
    /\ slice' = taskPending(slice)
    /\ UNCHANGED <<auth, jar, net, ui>>

\* the server has sent the response: it travels on its own connection
Send ==
    /\ ~Quiet
    /\ resp' = NoReq
    /\ net' = Append(net, resp)
    /\ UNCHANGED <<server, clock, procs, nreq, auth, jar, slice, ui>>

\* the i-th response in flight arrives, whatever was sent before it: axios
\* resolves or throws, the thunk settles
Receive(i) ==
    /\ i \in 1..Len(net)
    /\ net' = SubSeq(net, 1, i - 1) \o SubSeq(net, i + 1, Len(net))
    /\ jar' = setCookies(jar, net[i])
    /\ slice' = taskThunkResult(slice, net[i])
    /\ UNCHANGED <<server, clock, procs, resp, nreq, auth, ui>>

NextTaskClient ==
    \/ \E p \in Procs : dispatchFetchTasks(p)
    \/ \E p \in Procs, s \in {"pending", "completed"} : dispatchFetchTasksByStatus(p, s)
    \/ \E p \in Procs, n \in TaskIds : dispatchFetchTaskById(p, n)
    \/ \E p \in Procs, t \in Titles, s \in {NoStatus} : dispatchCreateTask(p, t, s)
    \/ \E p \in Procs, n \in TaskIds, t \in {NoTitle}, s \in {NoStatus, "completed"} :
          dispatchUpdateTask(p, n, t, s)
    \/ \E p \in Procs : UpdateTaskWrite(p)
    \/ \E p \in Procs, n \in TaskIds : dispatchDeleteTask(p, n)
    \/ Send
    \/ \E i \in 1..MaxRequests : Receive(i)

SpecTaskClient == InitTaskClient /\ [][NextTaskClient]_vars

\* -------------------------------------------------- the Dashboard's logout
\* onClick: await dispatch(logoutUser()); await persistor.purge();
\*          router.push("/login")
LogoutClick(p) ==
    /\ ui = "idle"
    /\ auth.isAuthenticated
    /\ LogoutStart(p, cookieToken(<<"auth", "logout">>))
    /\ auth' = pending(auth)
    /\ ui' = "await dispatch"
    /\ UNCHANGED <<jar, slice, net>>

\* the logout thunk settles, fulfilled or rejected: dispatch() resolves
LogoutSettled ==
    /\ ~Quiet
    /\ resp.op = "logout" /\ ui = "await dispatch"
    /\ resp' = NoReq
    /\ jar' = setCookies(jar, resp)
    /\ auth' = thunkResult(auth, resp)
    /\ ui' = "await purge"
    /\ UNCHANGED <<server, clock, procs, nreq, slice, net>>

\* a thunk dispatched elsewhere settles
SettleOther == resp.op # "logout" /\ Settle

\* persistor.purge(): the persisted copy is removed from storage, the
\* store's state stays
Purge ==
    /\ ui = "await purge"
    /\ ui' = "push"
    /\ UNCHANGED <<server, clock, procs, resp, nreq, auth, jar, slice, net>>

\* router.push("/login"): the handler has run to completion
Push ==
    /\ ui = "push"
    /\ ui' = "done"
    /\ UNCHANGED <<server, clock, procs, resp, nreq, auth, jar, slice, net>>

NextDashboard ==
    \/ \E p \in Procs, e \in Emails, w \in ShortPasswords : dispatchLoginUser(p, e, w)
    \/ \E p \in Procs : LoginWrite(p)
    \/ \E p \in Procs : dispatchRefreshAccessToken(p)
    \/ \E p \in Procs : RefreshWrite(p)
    \/ \E p \in Procs : IssueRespond(p)
    \/ \E p \in Procs : LogoutClick(p)
    \/ \E p \in Procs : LogoutWrite(p)
    \/ \E p \in Procs : LogoutRespond(p)
    \/ LogoutSettled
    \/ SettleOther
    \/ Purge
    \/ Push
    \/ \E d \in {JWT_EXPIRY} : Tick(d)

SpecDashboard == InitTaskClient /\ [][NextDashboard]_vars

\* ====================================================== claims C1 .. C10
Generated == 1..Len(toks)
Known(tok) == tok # NoCookie /\ tok[2] \in Generated
Accepts(n) == findByRefreshToken(hashRefreshToken(RT(n))) # 0
NoCookies(r) == r.tokenCookie.op = "none" /\ r.refreshCookie.op = "none"

\* C1: of the refresh calls that present the same refresh token, racing or
\* not, at most one returns success: no token is rotated twice.
C1_AtMostOneRotation == \A n \in Generated : toks[n].wins <= 1

\* C2: refresh tokens are single-use: once a refresh with token T has
\* succeeded T matches no stored hash, and every refresh that arrives with T
\* afterwards is answered 401 'Invalid refresh token'.
C2_SingleUse ==
    /\ \A n \in Generated : toks[n].wins > 0 => ~Accepts(n)
    /\ (resp.op = "refresh" /\ resp.late) =>
          /\ resp.status = 401
          /\ resp.message = "Invalid refresh token"
          /\ NoCookies(resp)

C2_Witness == resp.op = "refresh" /\ resp.late /\ resp.status = 401

\* C3: once a logout of a user has been answered and no login of that user
\* has happened since, every refresh that arrives with a refresh token of
\* that user fails.
C3_NoRefreshAfterLogout == (resp.op = "refresh" /\ resp.out) => resp.status = 401

\* C4: for every user at most one generated refresh token is accepted: after
\* a login or refresh wrote, none but the token that call generated; after a
\* logout wrote, none.
C4_AtMostOneValid ==
    \A u \in UserIds :
        {n \in Generated : toks[n].uid = u /\ Accepts(n)} \subseteq
            (IF last[u] \in {"login", "refresh"} THEN {Latest(u)} ELSE {})

C4_Witness ==
    \E u \in UserIds :
        /\ Cardinality({n \in Generated : toks[n].uid = u /\ toks[n].ret}) >= 2
        /\ Accepts(Latest(u))

\* C5: a logout request of an authenticated session (it carries an access
\* token this server issued to a user whose refreshToken is set, expired or
\* not) is answered 200, clears both cookies and leaves refreshToken null.
C5_LogoutEndsSession ==
    (resp.op = "logout" /\ resp.live) =>
        /\ resp.status = 200
        /\ resp.tokenCookie.op = "clear"
        /\ resp.refreshCookie.op = "clear"
        /\ users[resp.atok.userId].refreshToken = NullHash

C7_ExpiryKeepsSession ==
    /\ [](resp.op = "refresh" /\ resp.uid # 0 =>
            /\ resp.status = 200
            /\ now = resp.token.iat =>
                  /\ authMiddleware(resp.token).status = 200
                  /\ authMiddleware(resp.token).userId = resp.uid)
    /\ [][now' # now => users' = users]_vars

C7_Witness ==
    /\ resp.op = "refresh" /\ resp.status = 200
    /\ \E a \in accs : a.userId = resp.uid /\ a.iat + JWT_EXPIRY <= resp.at

\* C8: a refresh that arrives 7 days or more after its refresh token was
\* generated fails.
C8_RefreshTokenExpires ==
    (resp.op = "refresh" /\ Known(resp.tok)
       /\ resp.at >= toks[resp.tok[2]].at + REFRESH_TOKEN_EXPIRY) => resp.status = 401

\* C9: authMiddleware and verifyToken accept an access token exactly when it
\* is signed with the secret and unexpired, whatever logins, refreshes and
\* logouts have happened; user documents hold nothing about access tokens.
C9_StatelessAccess ==
    /\ \A a \in AccessCookies :
          LET ok == a.sig = jwtSecret /\ jwtSecret # "" /\ now < a.iat + JWT_EXPIRY IN
          /\ (authMiddleware(a).status = 200) = ok
          /\ (verifyToken(a) # 0) = ok
          /\ ok => authMiddleware(a).userId = a.userId /\ verifyToken(a) = a.userId
    /\ \A u \in UserIds : DOMAIN users[u] = {"email", "password", "refreshToken"}

C9_Witness ==
    \E a \in accs : /\ authMiddleware(a).status = 200
                     /\ lo[a.userId] = 2
                     /\ users[a.userId].refreshToken = NullHash

\* C10: a refresh request whose refreshToken cookie is missing or matches no
\* stored hash is answered 401 without cookies and without a change to any
\* user document, and when the thunk settles the rejected reducer leaves
\* isAuthenticated false and userId null.
C10_FailedRefreshEndsSession ==
    /\ [](resp.op = "refresh" /\ resp.uid = 0 => resp.status = 401 /\ NoCookies(resp))
    /\ [][resp.op = "none" /\ resp'.op = "refresh" /\ resp'.uid = 0
             => users' = users]_vars
    /\ [][resp.op = "refresh" /\ resp.uid = 0 /\ resp'.op = "none"
             => auth'.isAuthenticated = FALSE /\ auth'.userId = 0]_vars

C10_Witness ==
    resp.op = "refresh" /\ resp.uid = 0 /\ resp.status = 401 /\ auth.isAuthenticated

\* ===================================================== claims C11 .. C20
\* what a response shows to the client
Wire(r) == [status |-> r.status, body |-> r.body,
            tokenCookie |-> r.tokenCookie, token |-> r.token,
            refreshCookie |-> r.refreshCookie, refreshToken |-> r.refreshToken]

\* C11: a login that fails on its credentials (uid = 0: the e-mail is
\* unregistered, or it is registered and the password is wrong) gets the same
\* service result, status, body and cookies in both cases.
C11_LoginFailureUniform ==
    (resp.op = "login" /\ resp.uid = 0) =>
        /\ resp.message = "Invalid credentials" /\ resp.userId = 0
        /\ Wire(resp) = [status |-> 401, body |-> [message |-> "Invalid credentials"],
                         tokenCookie |-> NoCookieOp, token |-> NoAccess,
                         refreshCookie |-> NoCookieOp, refreshToken |-> NoCookie]

C11_Witness ==
    /\ resp.op = "login" /\ resp.uid = 0 /\ resp.status = 401
    /\ findByEmail(resp.email) # 0
    /\ \E e \in Emails : findByEmail(e) = 0

\* C12: the JSON body of every response of register, login, refresh and
\* logout has no member but message and userId; the bodies of a successful
\* login and refresh have exactly these two, and the tokens they issue are in
\* the cookies.
C12_NoTokenInBody ==
    /\ resp.op \in {"register", "login", "refresh", "logout"} =>
          DOMAIN resp.body \subseteq {"message", "userId"}
    /\ (resp.op \in {"login", "refresh"} /\ resp.status = 200) =>
          /\ resp.body = [message |-> resp.message, userId |-> resp.userId]
          /\ resp.tokenCookie.op = "set" /\ resp.token \in accs
          /\ resp.refreshCookie.op = "set" /\ Known(resp.refreshToken)

C12_Witness == resp.op = "login" /\ resp.status = 200 /\ resp.token # NoAccess

\* C13: every access-token cookie set by login or refresh is HttpOnly, Secure
\* exactly in production, SameSite=Strict, max-age 15 minutes, path "/".
C13_AccessCookieAttributes ==
    (resp.op \in {"login", "refresh"} /\ resp.tokenCookie.op = "set") =>
        /\ resp.tokenCookie.httpOnly
        /\ resp.tokenCookie.secure = (nodeEnv = "production")
        /\ resp.tokenCookie.sameSite = "strict"
        /\ resp.tokenCookie.maxAge = 15
        /\ resp.tokenCookie.path = RootPath

\* C14: the refreshToken cookie is set and cleared with path /auth/refresh
\* only, and the browser attaches it to no request but those to
\* /auth/refresh.
C14_RefreshCookiePath ==
    /\ resp.refreshCookie.op \in {"set", "clear"} =>
          resp.refreshCookie.path = <<"auth", "refresh">>
    /\ \A e \in Endpoints :
          cookieRefreshToken(e) # NoCookie => e = <<"auth", "refresh">>

C14_Witness ==
    /\ resp.op = "logout" /\ resp.status = 200 /\ resp.refreshCookie.op = "clear"
    /\ cookieRefreshToken(<<"auth", "refresh">>) # NoCookie
    /\ cookieToken(<<"auth", "logout">>) # NoAccess

\* C15: verifyToken never throws; it returns the token's userId for a token
\* signed with the set secret and unexpired, and null for every other token
\* (expired, malformed, absent, badly signed) and whenever the secret is
\* unset.
C15_VerifyTokenTotal ==
    \A a \in AccessCookies :
        /\ verifyToken(a) # Thrown
        /\ verifyToken(a) =
              (IF jwtSecret # "" /\ a.sig = jwtSecret /\ now < a.iat + JWT_EXPIRY
               THEN a.userId ELSE 0)

C15_Witness ==
    /\ jwtSecret # ""
    /\ \E a \in accs : now >= a.iat + JWT_EXPIRY /\ verifyToken(a) = 0
    /\ \E a \in accs : verifyToken(a) = a.userId

\* C16: the stored hash of every registered user verifies the password that
\* user registered and no other password, and a login that succeeds presented
\* the registered password.
C16_PasswordDecidesLogin ==
    /\ \A u \in UserIds, w \in Passwords :
          verifyPassword(w, users[u].password) <=> (w = pws[u])
    /\ (resp.op = "login" /\ resp.status = 200) => resp.same

\* C17: the tasks a user's getTasks, getTasksByStatus and getTaskById return
\* are that user's own; an updateTask or deleteTask of a user on a task of
\* another user (a request that validate let through to the controller) is
\* answered 404 and changes no task; a task changes only by a call of its
\* owner.
C17_TaskIsolation ==
    /\ [](resp.op \in {"getTasks", "getTasksByStatus"} /\ resp.status = 200 =>
            \A i \in DOMAIN resp.body.tasks :
                resp.body.tasks[i].userId = resp.atok.userId)
    /\ [](resp.op = "getTaskById" /\ resp.status = 200 =>
            resp.body.task.userId = resp.atok.userId)
    /\ [][(/\ resp'.op \in {"updateTask", "deleteTask"} /\ resp'.uid # 0
           /\ resp'.body.message # "Validation failed"
           /\ resp'.taskId \in 1..Len(tasks) /\ tasks[resp'.taskId] # NoTask
           /\ tasks[resp'.taskId].userId # resp'.uid)
             => resp'.status = 404 /\ tasks' = tasks]_vars
    /\ [][\A n \in 1..Len(tasks) :
             tasks[n] # NoTask /\ tasks'[n] # tasks[n] =>
                 resp'.uid = tasks[n].userId /\ resp'.taskId = n]_vars

C17_Witness ==
    /\ resp.op = "updateTask" /\ resp.status = 404 /\ resp.uid # 0
    /\ resp.taskId \in 1..Len(tasks) /\ tasks[resp.taskId] # NoTask
    /\ tasks[resp.taskId].userId # resp.uid
    /\ \E n \in 1..Len(tasks) : tasks[n] # NoTask /\ tasks[n].userId = resp.uid

\* the routes behind authMiddleware; the token of a request verifies when it
\* is signed with the set secret and unexpired at arrival
GatedOps == {"getTasks", "getTasksByStatus", "getTaskById", "createTask",
             "updateTask", "deleteTask", "logout"}
Verifies(r) ==
    jwtSecret # "" /\ r.atok.sig = jwtSecret /\ r.at < r.atok.iat + JWT_EXPIRY

C19_DuplicateRegistration ==
    /\ [](resp.op = "register" /\ resp.had =>
            /\ resp.status = 409
            /\ resp.body = [message |-> "User already exists"])
    /\ [][resp'.op = "register" /\ resp'.had => users' = users]_vars
    /\ [](\A u, v \in UserIds : users[u].email = users[v].email => u = v)

C19_Witness ==
    /\ resp.op = "register" /\ resp.had /\ resp.status = 409
    /\ users[findByEmail(resp.email)].refreshToken # NullHash

AuthOps == {"login", "refresh", "logout"}
Hashes(us) == [u \in DOMAIN us |-> us[u].refreshToken]

\* C21: a login, refresh or logout that is answered with a failure has
\* written nothing: the failure is sent by the step that received the
\* request, which changes no user document, so that every refresh token
\* accepted before is accepted after; and every step that changes a stored
\* refreshToken belongs to a call that is answered 200.
C21_FailureWritesNothing ==
    /\ [][(resp'.op \in AuthOps /\ resp.op = "none" /\ resp'.status # 200) =>
             /\ procs' = procs
             /\ users' = users
             /\ \A n \in Generated : Accepts(n) => Accepts(n)']_vars
    /\ [][\A u \in UserIds :
             users'[u].refreshToken # users[u].refreshToken =>
                 \E p \in Procs : /\ procs[p].pc = "write" /\ procs'[p].pc = "respond"
                                   /\ procs'[p].uid = u /\ procs'[p].op \in AuthOps
                                   /\ procs'[p].op # "logout" => procs'[p].status = 200]_vars
    /\ [][\A p \in Procs :
             procs[p].pc = "respond" /\ procs'[p].pc = "idle" /\ procs[p].op \in AuthOps
                 => resp'.status = 200]_vars

C21_Witness ==
    /\ resp.op = "login" /\ resp.status = 401 /\ findByEmail(resp.email) # 0
    /\ users[findByEmail(resp.email)].refreshToken # NullHash
    /\ \E u \in UserIds : u # findByEmail(resp.email) /\ users[u].refreshToken # NullHash

\* C22: AuthService.logout(userId) leaves the user's refreshToken null and
\* every other document as it was; called again on the state it left, it
\* changes nothing; and every logout that reaches the controller is
\* answered 200, the second as the first.
C22_LogoutIdempotent ==
    /\ [][\A p \in Procs :
             (procs[p].op = "logout" /\ procs[p].pc = "write" /\ procs'[p].pc = "respond") =>
                 LET u == procs[p].uid IN
                 /\ users'[u].refreshToken = NullHash
                 /\ \A v \in UserIds \ {u} : users'[v] = users[v]
                 /\ users[u].refreshToken = NullHash => users' = users
                 /\ logout(u)' = users']_vars
    /\ [](resp.op = "logout" /\ resp.uid # 0 =>
            resp.status = 200 /\ resp.message = "Logout successful")

C22_Witness ==
    /\ resp.op = "logout" /\ resp.status = 200
    /\ resp.atok \in accs /\ ~resp.live
    /\ last[resp.uid] = "logout"

\* C23: while JWT_SECRET is unset no token is issued: a login with the
\* registered password and a refresh whose token matches a stored hash are
\* answered with a failure and without cookies, no refreshToken is written
\* and no token is generated; and a refreshToken hash is only ever stored by
\* a step that has generated an access token with the secret set.
C23_NoTokensWithoutSecret ==
    /\ []((jwtSecret = "" /\ resp.op = "login" /\ resp.same) =>
            /\ resp.status = 401 /\ resp.message = "An error occurred during login"
            /\ NoCookies(resp) /\ resp.token = NoAccess /\ resp.refreshToken = NoCookie)
    /\ []((jwtSecret = "" /\ resp.op = "refresh" /\ resp.uid # 0) =>
            /\ resp.status = 401
            /\ resp.message = "An error occurred during token refresh"
            /\ NoCookies(resp) /\ resp.token = NoAccess /\ resp.refreshToken = NoCookie)
    /\ [][(jwtSecret = "" /\ jwtSecret' = "") =>
             /\ \A u \in UserIds : users'[u].refreshToken = users[u].refreshToken
             /\ toks' = toks /\ accs' = accs
             /\ \A p \in Procs : procs'[p].token = NoAccess]_vars
    /\ [][\A u \in UserIds :
             users'[u].refreshToken \notin {users[u].refreshToken, NullHash} =>
                 \E p \in Procs : /\ procs'[p].token.userId = u
                                   /\ procs'[p].token.sig = jwtSecret
                                   /\ jwtSecret # ""]_vars

C23_Witness ==
    /\ jwtSecret = "" /\ resp.op = "refresh" /\ resp.uid # 0 /\ resp.status = 401
    /\ users[resp.uid].refreshToken = hashRefreshToken(resp.tok)

\* the request was answered at once, by a step that made no repository call
\* and changed nothing the server keeps
Rejected(status, message) ==
    /\ resp'.status = status /\ resp'.message = message
    /\ resp'.calls = 0 /\ resp'.uid = 0
    /\ procs' = procs
    /\ UNCHANGED server

\* the request a step has received: answered at once or waiting in its slot
Received == IF resp'.op # "none" THEN resp' ELSE procs'[1]

C25_StoredStatusValid ==
    \A n \in 1..Len(tasks) : tasks[n] # NoTask => tasks[n].status \in validStatuses

\* C26: once a logout of a user has been answered and no login of that user
\* has written since, the user's stored refreshToken is null, whatever
\* refresh was in flight when the logout wrote.
C26_LogoutStaysNull ==
    \A u \in UserIds : lo[u] = 2 => users[u].refreshToken = NullHash

\* C27: a refresh that succeeds was called with a refresh token the server
\* generated; the user whose refreshToken it overwrites, the userId of the
\* access token it signs, the userId it returns and the owner of the new
\* refresh token are the user the presented token was generated for, and no
\* other user document changes.
C27_RefreshActsOnOwner ==
    /\ [](resp.op = "refresh" /\ resp.status = 200 =>
            /\ Known(resp.tok) /\ Known(resp.refreshToken)
            /\ resp.userId = toks[resp.tok[2]].uid
            /\ resp.token.userId = toks[resp.tok[2]].uid
            /\ toks[resp.refreshToken[2]].uid = toks[resp.tok[2]].uid)
    /\ [][\A p \in Procs :
             (procs[p].op = "refresh" /\ procs[p].pc = "write" /\ procs'[p].pc = "respond") =>
                 /\ Known(procs[p].tok)
                 /\ LET owner == toks[procs[p].tok[2]].uid IN
                    /\ users'[owner].refreshToken = hashRefreshToken(procs'[p].refreshToken)
                    /\ \A v \in UserIds \ {owner} : users'[v] = users[v]]_vars

C27_Witness ==
    /\ resp.op = "refresh" /\ resp.status = 200
    /\ \E v \in UserIds : v # resp.userId /\ users[v].refreshToken # NullHash

\* C28: the client's task list holds no two entries with the same _id,
\* whatever the order in which the responses of concurrent task thunks
\* arrive.
C28_NoDuplicateTask ==
    \A i, j \in DOMAIN slice.tasks :
        i # j => slice.tasks[i]._id # slice.tasks[j]._id

\* the task thunks dispatched and not yet fulfilled or rejected
PendingThunks ==
    Cardinality({p \in Procs : procs[p].pc # "idle"})
        + (IF Quiet THEN 0 ELSE 1) + Len(net)

\* C29: the task slice's loading is true exactly when a task thunk is
\* pending.
C29_LoadingIffPending == slice.loading = (PendingThunks > 0)

\* C30: when the Dashboard's logout handler has run to completion the auth
\* state is Anonymous, whether the logout thunk was fulfilled or rejected.
C30_LogoutHandlerEndsSession ==
    [][(ui = "push" /\ ui' = "done") =>
          auth'.isAuthenticated = FALSE /\ auth'.userId = 0]_vars
====
